---- MODULE Spec2Model ----
(***************************************************************************)
(* A model of miniquad's texture resource manager                          *)
(* (src/src/graphics/texture.rs) on top of the per-Context binding cache   *)
(* and the OpenGL texture state machine.                                   *)
(*                                                                         *)
(* Every Texture operation is one action.  An operation is computed by     *)
(* threading a machine state  m = [cache, gl, trace]  through the calls    *)
(* the code makes, in the code's order; trace is the log of those calls.   *)
(*                                                                         *)
(* Numbers.  u32 and usize values do not fit the model checker's integers, *)
(* so an unsigned number is a little-endian sequence of base-256 digits    *)
(* without trailing zeros (<<>> is 0).  Arithmetic on them is exact; the   *)
(* machine operations truncate to the width of their type (4 bytes for     *)
(* u32, 8 bytes for usize) when the build does not check overflow and      *)
(* panic when it does.  i32 values are plain integers.                     *)
(***************************************************************************)
EXTENDS Integers, Sequences, FiniteSets, TLC

VARIABLES cache, gl, textures, last, overflow_checks

vars == <<cache, gl, textures, last, overflow_checks>>

-----------------------------------------------------------------------------
(* Unsigned numbers as digit sequences.                                    *)

Base == 256

U32Bytes == 4

UsizeBytes == 8

RECURSIVE Norm(_)
Norm(d) ==
    IF d = <<>> THEN <<>>
    ELSE IF d[Len(d)] = 0 THEN Norm(SubSeq(d, 1, Len(d) - 1))
    ELSE d

RECURSIVE NatOf(_)
NatOf(n) == IF n = 0 THEN <<>> ELSE <<n % Base>> \o NatOf(n \div Base)

Digit(a, i) == IF i <= Len(a) THEN a[i] ELSE 0

Max(x, y) == IF x >= y THEN x ELSE y

RECURSIVE AddFrom(_, _, _, _)
AddFrom(a, b, i, carry) ==
    IF i > Max(Len(a), Len(b))
    THEN (IF carry = 0 THEN <<>> ELSE <<carry>>)
    ELSE LET s == Digit(a, i) + Digit(b, i) + carry
         IN  <<s % Base>> \o AddFrom(a, b, i + 1, s \div Base)

Add(a, b) == Norm(AddFrom(a, b, 1, 0))

RECURSIVE MulDigitFrom(_, _, _, _)
MulDigitFrom(a, d, i, carry) ==
    IF i > Len(a)
    THEN (IF carry = 0 THEN <<>> ELSE <<carry>>)
    ELSE LET s == a[i] * d + carry
         IN  <<s % Base>> \o MulDigitFrom(a, d, i + 1, s \div Base)

RECURSIVE MulFrom(_, _, _)
MulFrom(a, b, i) ==
    IF i > Len(b) THEN <<>>
    ELSE Add(MulDigitFrom(a, b[i], 1, 0), <<0>> \o MulFrom(a, b, i + 1))

Mul(a, b) == Norm(MulFrom(a, b, 1))

\* a mod 256^k
Low(a, k) == Norm(SubSeq(a, 1, IF Len(a) < k THEN Len(a) ELSE k))

Fits(a, k) == Len(a) <= k

RECURSIVE LessFrom(_, _, _)
LessFrom(a, b, i) ==
    IF i = 0 THEN FALSE
    ELSE IF a[i] # b[i] THEN a[i] < b[i]
    ELSE LessFrom(a, b, i - 1)

Less(a, b) ==
    IF Len(a) # Len(b) THEN Len(a) < Len(b) ELSE LessFrom(a, b, Len(a))

\* 2^k
Pow2(k) ==
    [i \in 1..(k \div 8) + 1 |->
        IF i = (k \div 8) + 1 THEN 2 ^ (k % 8) ELSE 0]

\* the integer of a number below 2^31
RECURSIVE IntOf(_)
IntOf(a) == IF a = <<>> THEN 0 ELSE a[1] + Base * IntOf(Tail(a))

-----------------------------------------------------------------------------
(* Machine arithmetic.  A result is [panic |-> BOOLEAN, val |-> number].   *)

Val(v) == [panic |-> FALSE, val |-> v]

Panic == [panic |-> TRUE, val |-> <<>>]

\* a * b in an unsigned type of k bytes: overflow panics in a build with
\* overflow checks and wraps otherwise
WrapMul(a, b, k, checks) ==
    LET p == Mul(a, b)
    IN  IF Fits(p, k) THEN Val(p)
        ELSE IF checks THEN Panic
        ELSE Val(Low(p, k))

MinI32 == -2147483647 - 1

MaxI32 == 2147483647

\* a + b in i32, result as an integer
I32Add(a, b, checks) ==
    IF a > 0 /\ b > 0 /\ a > MaxI32 - b
    THEN (IF checks THEN [panic |-> TRUE, val |-> 0]
          ELSE [panic |-> FALSE, val |-> ((a + MinI32) + b) + MinI32])
    ELSE IF a < 0 /\ b < 0 /\ a < MinI32 - b
    THEN (IF checks THEN [panic |-> TRUE, val |-> 0]
          ELSE [panic |-> FALSE, val |-> ((a - MinI32) + b) - MinI32])
    ELSE [panic |-> FALSE, val |-> a + b]

\* `x as i32` of a u32
U32AsI32(a) ==
    IF Len(a) < 4 \/ a[4] < 128 THEN IntOf(a)
    ELSE IntOf(SubSeq(a, 1, 3)) + (a[4] - Base) * 16777216

\* `x as usize` of an i32: sign extension to 8 bytes
I32AsUsize(n) ==
    IF n >= 0 THEN NatOf(n)
    ELSE LET m == NatOf(-(n + 1))
         IN  Norm([i \in 1..UsizeBytes |-> (Base - 1) - Digit(m, i)])

-----------------------------------------------------------------------------
(* Bounds and input sets.                                                  *)

\* texture names the driver hands out are 1..MaxHandles
MaxHandles == 2

Handles == 1..MaxHandles

Handles0 == 0..MaxHandles

\* texture units the cache tracks
Units == {0, 1}

NoStore == -1

TextureFormats == {"RGB8", "RGBA8", "RGBA4", "RGBA5551", "RGB565", "ALPHA"}

RenderTextureFormats == {"RGBA8", "Depth"}

FilterModes == {"Linear", "Nearest"}

TextureWraps == {"Repeat", "Mirror", "Clamp", "MirrorClamp"}

-----------------------------------------------------------------------------
(* The native API: OpenGL's texture objects and the 2D binding of each     *)
(* texture unit.  gl = [names, bound, active, tex]; texture 0 is the       *)
(* default texture, which always exists.                                   *)

NoObject ==
    [exists |-> FALSE, alloc |-> FALSE, w |-> 0, h |-> 0,
     min |-> "-", mag |-> "-", wrap_s |-> "-", wrap_t |-> "-"]

\* the state of a texture object when it is first bound
NewObject ==
    [exists |-> TRUE, alloc |-> FALSE, w |-> 0, h |-> 0,
     min |-> "NEAREST_MIPMAP_LINEAR", mag |-> "LINEAR",
     wrap_s |-> "REPEAT", wrap_t |-> "REPEAT"]

Ev(call, unit, h) ==
    [call |-> call, unit |-> unit, h |-> h, pname |-> "-", val |-> "-",
     rect |-> <<>>]

Log(m, e) == [m EXCEPT !.trace = Append(@, e)]

\* the texture the 2D target of the active unit names
Target(m) == m.gl.bound[m.gl.active]

glGenTextures(m, n) ==
    Log([m EXCEPT !.gl.names = @ \cup {n}], Ev("glGenTextures", m.gl.active, n))

glActiveTexture(m, u) ==
    Log([m EXCEPT !.gl.active = u], Ev("glActiveTexture", u, 0))

glBindTexture(m, h) ==
    Log([m EXCEPT !.gl.bound[m.gl.active] = h,
                  !.gl.tex[h] = IF @.exists THEN @ ELSE NewObject],
        Ev("glBindTexture", m.gl.active, h))

\* a negative size is GL_INVALID_VALUE and changes nothing
glTexImage2D(m, w, h) ==
    Log(IF w < 0 \/ h < 0 THEN m
        ELSE [m EXCEPT !.gl.tex[Target(m)].alloc = TRUE,
                       !.gl.tex[Target(m)].w = w,
                       !.gl.tex[Target(m)].h = h],
        [Ev("glTexImage2D", m.gl.active, Target(m)) EXCEPT !.rect = <<0, 0, w, h>>])

glTexParameteri(m, pname, val) ==
    Log([m EXCEPT !.gl.tex[Target(m)] =
            CASE pname = "MIN_FILTER" -> [@ EXCEPT !.min = val]
              [] pname = "MAG_FILTER" -> [@ EXCEPT !.mag = val]
              [] pname = "WRAP_S" -> [@ EXCEPT !.wrap_s = val]
              [] pname = "WRAP_T" -> [@ EXCEPT !.wrap_t = val]],
        [Ev("glTexParameteri", m.gl.active, Target(m))
            EXCEPT !.pname = pname, !.val = val])

\* the texel data is not modelled: the call is logged with its target and region
glTexSubImage2D(m, x, y, w, h) ==
    Log(m, [Ev("glTexSubImage2D", m.gl.active, Target(m))
                EXCEPT !.rect = <<x, y, w, h>>])

\* deleting a texture bound in the current context resets that binding to 0;
\* 0 and names that are not textures are silently ignored
glDeleteTextures(m, h) ==
    Log(IF h \notin m.gl.names THEN m
        ELSE [m EXCEPT !.gl.names = @ \ {h},
                       !.gl.tex[h] = NoObject,
                       !.gl.bound = [u \in Units |-> IF @[u] = h THEN 0 ELSE @[u]]],
        Ev("glDeleteTextures", m.gl.active, h))

-----------------------------------------------------------------------------
(* The BindingCache of a Context: cache = [textures, stored].              *)

\* remember the texture the native API has bound at the unit
StoreTextureBinding(m, unit) ==
    Log([m EXCEPT !.cache.stored[unit] = m.gl.bound[unit]],
        Ev("store_texture_binding", unit, m.gl.bound[unit]))

\* bind_texture without the elision
BindTextureAlways(m, unit, h) ==
    LET m1 == glActiveTexture(Log(m, Ev("bind_texture", unit, h)), unit)
    IN  [glBindTexture(m1, h) EXCEPT !.cache.textures[unit] = h]

\* select the unit; bind natively and record, unless the record already
\* names the handle
BindTexture(m, unit, h) ==
    LET m1 == glActiveTexture(Log(m, Ev("bind_texture", unit, h)), unit)
    IN  IF m1.cache.textures[unit] # h
        THEN [glBindTexture(m1, h) EXCEPT !.cache.textures[unit] = h]
        ELSE m1

\* bind what the matching store captured and clear the saved slot
RestoreTextureBinding(m, unit) ==
    LET h  == m.cache.stored[unit]
        m1 == Log(m, Ev("restore_texture_binding", unit, h))
        m2 == IF h = NoStore THEN m1 ELSE BindTexture(m1, unit, h)
    IN  [m2 EXCEPT !.cache.stored[unit] = NoStore]

-----------------------------------------------------------------------------
(* src/src/graphics/texture.rs                                             *)

Texture(texture, width, height) ==
    [texture |-> texture, width |-> width, height |-> height]

empty == Texture(0, <<>>, <<>>)

\* the result of an operation: whether it returned normally, the machine
\* state it leaves, and the Texture it returns (empty when it returns none)
Ok(m, tex) == [ok |-> TRUE, m |-> m, tex |-> tex]

Failed(m) == [ok |-> FALSE, m |-> m, tex |-> empty]

\* delete, were it to clear the cache's records as well
delete_clearing_bindings(m, self) ==
    Ok([glDeleteTextures(m, self.texture)
            EXCEPT !.cache.textures = [u \in Units |-> 0]], self)

\* delete, were it to make its call and destroy nothing
delete_nothing(m, self) ==
    Ok(Log(m, Ev("glDeleteTextures", m.gl.active, self.texture)), self)

delete(m, self) == Ok(glDeleteTextures(m, self.texture), self)

BytesPerPixel(format) ==
    CASE format = "ALPHA" -> 1
      [] format \in {"RGB565", "RGBA4", "RGBA5551"} -> 2
      [] format = "RGB8" -> 3
      [] format = "RGBA8" -> 4

size(format, width, height, checks) ==
    LET square == WrapMul(width, height, U32Bytes, checks)
    IN  IF square.panic THEN Panic
        ELSE IF format = "ALPHA" THEN square
        ELSE WrapMul(NatOf(BytesPerPixel(format)), square.val, U32Bytes, checks)

\* the calls both constructors make after glGenTextures
Upload(m, texture, width, height) ==
    LET m1 == BindTexture(m, 0, texture)
        m2 == glTexImage2D(m1, U32AsI32(width), U32AsI32(height))
        m3 == glTexParameteri(m2, "WRAP_S", "CLAMP_TO_EDGE")
        m4 == glTexParameteri(m3, "WRAP_T", "CLAMP_TO_EDGE")
        m5 == glTexParameteri(m4, "MIN_FILTER", "LINEAR")
    IN  glTexParameteri(m5, "MAG_FILTER", "LINEAR")

\* new_render_texture, were glGenTextures to leave `texture` as initialised
new_render_texture_unnamed(m, n, params) ==
    LET m1 == StoreTextureBinding(m, 0)
        m2 == glActiveTexture(m1, 0)
        m3 == Upload(m2, 0, params.width, params.height)
    IN  Ok(RestoreTextureBinding(m3, 0), Texture(0, params.width, params.height))

\* n is the name glGenTextures returns
new_render_texture(m, n, params) ==
    LET m1 == StoreTextureBinding(m, 0)
        m2 == glGenTextures(m1, n)
        m3 == glActiveTexture(m2, 0)
        m4 == Upload(m3, n, params.width, params.height)
        m5 == RestoreTextureBinding(m4, 0)
    IN  Ok(m5, Texture(n, params.width, params.height))

from_data_and_format(m, n, len, params, checks) ==
    LET sz == size(params.format, params.width, params.height, checks)
    IN  IF sz.panic \/ sz.val # Low(len, U32Bytes) THEN Failed(m)
        ELSE LET m1 == StoreTextureBinding(m, 0)
                 m2 == glGenTextures(m1, n)
                 m3 == Upload(m2, n, params.width, params.height)
                 m4 == RestoreTextureBinding(m3, 0)
             IN  Ok(m4, Texture(n, params.width, params.height))

\* from_rgba8, were it to save and restore the binding around its delegation
from_rgba8_nested(m, n, width, height, len, checks) ==
    LET r == from_data_and_format(StoreTextureBinding(m, 0), n, len,
                [format |-> "RGBA8", wrap |-> "Clamp", filter |-> "Linear",
                 width |-> width, height |-> height], checks)
    IN  IF Mul(Mul(width, height), NatOf(4)) # len \/ ~r.ok THEN Failed(m)
        ELSE Ok(RestoreTextureBinding(r.m, 0), r.tex)

\* width and height are u16
from_rgba8(m, n, width, height, len, checks) ==
    LET wh == WrapMul(width, height, UsizeBytes, checks)
        sz == IF wh.panic THEN Panic
              ELSE WrapMul(wh.val, NatOf(4), UsizeBytes, checks)
    IN  IF sz.panic \/ sz.val # len THEN Failed(m)
        ELSE from_data_and_format(m, n, len,
                [format |-> "RGBA8", wrap |-> "Clamp", filter |-> "Linear",
                 width |-> width, height |-> height], checks)

GLFilter(filter) == IF filter = "Linear" THEN "LINEAR" ELSE "NEAREST"

set_filter(m, self, filter) ==
    LET m1 == StoreTextureBinding(m, 0)
        m2 == BindTexture(m1, 0, self.texture)
        m3 == glTexParameteri(m2, "MIN_FILTER", GLFilter(filter))
        m4 == glTexParameteri(m3, "MAG_FILTER", GLFilter(filter))
    IN  Ok(RestoreTextureBinding(m4, 0), self)

\* update_texture_part, were it to save the binding before its assertions
update_texture_part_late_check(m, self, x_offset, y_offset, width, height, len, checks) ==
    LET wh == WrapMul(I32AsUsize(width), I32AsUsize(height), UsizeBytes, checks)
        sz == IF wh.panic THEN Panic
              ELSE WrapMul(wh.val, NatOf(4), UsizeBytes, checks)
        xe == I32Add(x_offset, width, checks)
        ye == I32Add(y_offset, height, checks)
        m1 == StoreTextureBinding(m, 0)
    IN  IF sz.panic \/ sz.val # len THEN Failed(m1)
        ELSE IF xe.panic \/ ~(xe.val <= U32AsI32(self.width)) THEN Failed(m1)
        ELSE IF ye.panic \/ ~(ye.val <= U32AsI32(self.height)) THEN Failed(m1)
        ELSE LET m2 == BindTexture(m1, 0, self.texture)
                 m3 == glTexSubImage2D(m2, x_offset, y_offset, width, height)
             IN  Ok(RestoreTextureBinding(m3, 0), self)

\* x_offset, y_offset, width, height are i32
update_texture_part(m, self, x_offset, y_offset, width, height, len, checks) ==
    LET wh == WrapMul(I32AsUsize(width), I32AsUsize(height), UsizeBytes, checks)
        sz == IF wh.panic THEN Panic
              ELSE WrapMul(wh.val, NatOf(4), UsizeBytes, checks)
        xe == I32Add(x_offset, width, checks)
        ye == I32Add(y_offset, height, checks)
    IN  IF sz.panic \/ sz.val # len THEN Failed(m)
        ELSE IF xe.panic \/ ~(xe.val <= U32AsI32(self.width)) THEN Failed(m)
        ELSE IF ye.panic \/ ~(ye.val <= U32AsI32(self.height)) THEN Failed(m)
        ELSE LET m1 == StoreTextureBinding(m, 0)
                 m2 == BindTexture(m1, 0, self.texture)
                 m3 == glTexSubImage2D(m2, x_offset, y_offset, width, height)
             IN  Ok(RestoreTextureBinding(m3, 0), self)

update(m, self, len, checks) ==
    LET wh == WrapMul(self.width, self.height, UsizeBytes, checks)
        sz == IF wh.panic THEN Panic
              ELSE WrapMul(wh.val, NatOf(4), UsizeBytes, checks)
    IN  IF sz.panic \/ sz.val # len THEN Failed(m)
        ELSE update_texture_part(m, self, 0, 0, U32AsI32(self.width),
                                 U32AsI32(self.height), len, checks)

-----------------------------------------------------------------------------
(* Inputs of the operations.                                               *)

\* (width, height) of a constructor's params, as u32
Dims ==
    { <<NatOf(0), NatOf(0)>>, <<NatOf(4), NatOf(4)>>,
      <<NatOf(32768), NatOf(32768)>>, <<NatOf(65536), NatOf(65536)>>,
      <<Pow2(31), NatOf(1)>> }

SmallDims == { <<NatOf(2), NatOf(2)>> }

\* (width, height) of from_rgba8, as u16
Dims16 == { <<NatOf(4), NatOf(4)>>, <<NatOf(32768), NatOf(32768)>> }

\* the exact number of bytes of a tightly packed image
ExactSize(format, width, height) ==
    Mul(NatOf(BytesPerPixel(format)), Mul(width, height))

\* buffer lengths tried for an image whose exact size is e: the size, the
\* lengths that agree with it modulo 2^32 from above and from below, and
\* another one
Lens(e) ==
    {e, Add(Low(e, U32Bytes), Pow2(32)), Low(e, U32Bytes), Add(Low(e, 1), NatOf(63))}

\* the lengths an action tries: the exact one, that and one byte more, or
\* all of Lens
LensFor(which, e) ==
    CASE which = "exact" -> {e}
      [] which = "near" -> {e, Add(e, NatOf(1))}
      [] which = "wide" -> Lens(e)

\* (x_offset, y_offset, width, height) of update_texture_part, as i32
Rects ==
    { <<0, 0, 2, 2>>, <<1, 1, 1, 1>>, <<1, 0, 2, 1>>, <<0, 1, 1, 2>>,
      <<MaxI32, 0, 1, 1>>, <<0, MaxI32, 1, 1>>, <<0, 0, -1, -1>>,
      <<-1, 0, 1, 1>>, <<3, 0, 2, 1>>, <<0, 0, 4, 4>> }

SmallRects == { <<0, 0, 2, 2>>, <<1, 1, 1, 1>> }

\* the length update_texture_part's first assertion computes without
\* overflow checks and, on the wide inputs, one that differs from it
RectLens(which, r) ==
    LET n == Low(Mul(Mul(I32AsUsize(r[3]), I32AsUsize(r[4])), NatOf(4)), UsizeBytes)
    IN  IF which = "exact" THEN {n} ELSE {n, Add(n, NatOf(1))}

\* (wrap, filter) of a constructor's params
Samplers == TextureWraps \X FilterModes

DefaultSampler == { <<"Clamp", "Linear">> }

NoArgs ==
    [format |-> "-", width |-> <<>>, height |-> <<>>, len |-> <<>>,
     rect |-> <<>>, wrap |-> "-", filter |-> "-", unit |-> 0, handle |-> 0]

Machine == [cache |-> cache, gl |-> gl, trace |-> <<>>]

\* an operation has run with result r; last records the call, its outcome,
\* the calls it made, and whether it is a bind_texture that repeats the
\* call before it
Commit(op, args, self, r) ==
    /\ cache' = r.m.cache
    /\ gl' = r.m.gl
    /\ last' = [op |-> op, ok |-> r.ok, args |-> args, self |-> self,
                tex |-> r.tex, trace |-> r.m.trace,
                again |-> op = "bind_texture" /\ last.op = op /\ last.args = args]
    /\ UNCHANGED overflow_checks

FreeNames == Handles \ gl.names

-----------------------------------------------------------------------------
(* Actions: one per operation, its inputs drawn from the given sets.       *)

Init ==
    /\ cache = [textures |-> [u \in Units |-> 0],
                stored |-> [u \in Units |-> NoStore]]
    /\ gl = [names |-> {}, bound |-> [u \in Units |-> 0], active |-> 0,
             tex |-> [h \in Handles0 |-> IF h = 0 THEN NewObject ELSE NoObject]]
    /\ textures = {}
    /\ last = [op |-> "init", ok |-> TRUE, args |-> NoArgs, self |-> empty,
               tex |-> empty, trace |-> <<>>, again |-> FALSE]
    /\ overflow_checks \in BOOLEAN

Size(D) ==
    \E format \in TextureFormats, d \in D :
        LET sz == size(format, d[1], d[2], overflow_checks)
        IN  /\ last' = [op |-> "size", ok |-> ~sz.panic,
                        args |-> [NoArgs EXCEPT !.format = format,
                                    !.width = d[1], !.height = d[2],
                                    !.len = sz.val],
                        self |-> empty, tex |-> empty, trace |-> <<>>,
                        again |-> FALSE]
            /\ UNCHANGED <<cache, gl, textures, overflow_checks>>

NewRenderTexture(D, P) ==
    \E n \in FreeNames, format \in RenderTextureFormats, d \in D, p \in P :
        LET params == [format |-> format, wrap |-> p[1], filter |-> p[2],
                       width |-> d[1], height |-> d[2]]
            r == new_render_texture(Machine, n, params)
        IN  /\ Commit("new_render_texture",
                      [NoArgs EXCEPT !.format = format, !.width = d[1],
                                     !.height = d[2], !.wrap = p[1],
                                     !.filter = p[2]],
                      empty, r)
            /\ textures' = textures \cup {r.tex}

FromDataAndFormat(F, D, which, P) ==
    \E n \in FreeNames, format \in F, d \in D, p \in P :
      \E len \in LensFor(which, ExactSize(format, d[1], d[2])) :
        LET params == [format |-> format, wrap |-> p[1], filter |-> p[2],
                       width |-> d[1], height |-> d[2]]
            r == from_data_and_format(Machine, n, len, params, overflow_checks)
        IN  /\ Commit("from_data_and_format",
                      [NoArgs EXCEPT !.format = format, !.width = d[1],
                                     !.height = d[2], !.len = len,
                                     !.wrap = p[1], !.filter = p[2]],
                      empty, r)
            /\ textures' = IF r.ok THEN textures \cup {r.tex} ELSE textures

FromRgba8(D, which) ==
    \E n \in FreeNames, d \in D :
      \E len \in LensFor(which, ExactSize("RGBA8", d[1], d[2])) :
        LET r == from_rgba8(Machine, n, d[1], d[2], len, overflow_checks)
        IN  /\ Commit("from_rgba8",
                      [NoArgs EXCEPT !.format = "RGBA8", !.width = d[1],
                                     !.height = d[2], !.len = len],
                      empty, r)
            /\ textures' = IF r.ok THEN textures \cup {r.tex} ELSE textures

SetFilter(FM) ==
    \E self \in textures, filter \in FM :
        /\ Commit("set_filter", [NoArgs EXCEPT !.filter = filter], self,
                  set_filter(Machine, self, filter))
        /\ UNCHANGED textures

Update(which) ==
    \E self \in textures :
      \E len \in LensFor(which, ExactSize("RGBA8", self.width, self.height)) :
        /\ Commit("update", [NoArgs EXCEPT !.len = len], self,
                  update(Machine, self, len, overflow_checks))
        /\ UNCHANGED textures

UpdateTexturePart(R, which) ==
    \E self \in textures, rect \in R :
      \E len \in RectLens(which, rect) :
        /\ Commit("update_texture_part",
                  [NoArgs EXCEPT !.rect = rect, !.len = len], self,
                  update_texture_part(Machine, self, rect[1], rect[2], rect[3],
                                      rect[4], len, overflow_checks))
        /\ UNCHANGED textures

\* the caller gives up the Texture value it deletes
Delete ==
    \E self \in textures :
        /\ Commit("delete", NoArgs, self, delete(Machine, self))
        /\ textures' = textures \ {self}

\* the caller copies a Texture value it holds: the copy is the same value
Copy ==
    \E self \in textures :
        /\ Commit("copy", NoArgs, self, Ok(Machine, self))
        /\ UNCHANGED textures

Empty ==
    /\ Commit("empty", NoArgs, empty, Ok(Machine, empty))
    /\ UNCHANGED textures

\* the Context binds a live texture (or none) at a unit, as it does to draw
CacheBindTexture ==
    \E unit \in Units, h \in {t.texture : t \in textures} \cup {0} :
        /\ Commit("bind_texture", [NoArgs EXCEPT !.unit = unit, !.handle = h],
                  empty, Ok(BindTexture(Machine, unit, h), empty))
        /\ UNCHANGED textures

\* store_texture_binding immediately followed by restore_texture_binding
StoreRestore ==
    \E unit \in Units :
        /\ Commit("store_restore", [NoArgs EXCEPT !.unit = unit], empty,
                  Ok(RestoreTextureBinding(StoreTextureBinding(Machine, unit), unit),
                     empty))
        /\ UNCHANGED textures

\* The binding protocol: every operation, on small images; of the failing
\* calls, the constructors' with a buffer one byte too long.
Next ==
    \/ NewRenderTexture(SmallDims, DefaultSampler)
    \/ FromDataAndFormat({"RGBA8"}, SmallDims, "near", DefaultSampler)
    \/ FromRgba8(SmallDims, "near")
    \/ SetFilter({"Nearest"})
    \/ Update("exact")
    \/ UpdateTexturePart(SmallRects, "exact")
    \/ Delete
    \/ Copy
    \/ CacheBindTexture
    \/ StoreRestore

Spec == Init /\ [][Next]_vars

\* The size arithmetic alone.
NextSize ==
    Size(Dims \cup SmallDims \cup
         {<<NatOf(65535), NatOf(65537)>>, <<NatOf(3), NatOf(5)>>,
          <<Pow2(31), NatOf(2)>>, <<Pow2(30), NatOf(1)>>})

SpecSize == Init /\ [][NextSize]_vars

\* The preconditions: the operations that check their arguments, on the
\* whole range of their inputs.
NextArgs ==
    \/ NewRenderTexture(Dims, DefaultSampler)
    \/ FromDataAndFormat(TextureFormats, Dims, "wide", DefaultSampler)
    \/ FromRgba8(Dims16, "wide")
    \/ Update("wide")
    \/ UpdateTexturePart(Rects, "wide")
    \/ Delete
    \/ Empty

SpecArgs == Init /\ [][NextArgs]_vars

\* The sampler state: the constructors with every wrap and filter in their
\* params, set_filter with every filter, and the calls that move bindings.
NextSampler ==
    \/ NewRenderTexture(SmallDims, Samplers)
    \/ FromDataAndFormat({"RGBA8"}, SmallDims, "exact", Samplers)
    \/ SetFilter(FilterModes)
    \/ Delete
    \/ CacheBindTexture

SpecSampler == Init /\ [][NextSampler]_vars

-----------------------------------------------------------------------------
(* Reading the log of an operation.                                        *)

TexOps ==
    {"new_render_texture", "from_data_and_format", "from_rgba8",
     "set_filter", "update", "update_texture_part"}

\* the positions in trace tr of the calls named in C that address unit u
At(tr, C, u) == {i \in 1..Len(tr) : tr[i].call \in C /\ tr[i].unit = u}

\* the positions of the native calls that change a texture
Mutations(tr) ==
    {i \in 1..Len(tr) :
        tr[i].call \in {"glTexImage2D", "glTexParameteri", "glTexSubImage2D"}}

NativeBinds(tr) == {i \in 1..Len(tr) : tr[i].call = "glBindTexture"}

\* x + w > W, for i32 x and w and a u32 W, in exact integers
SumExceeds(x, w, W) ==
    IF x > 0 /\ w > 0 /\ x > MaxI32 - w
    THEN Less(W, Add(NatOf(x), NatOf(w)))
    ELSE IF x < 0 /\ w < 0 /\ x < MinI32 - w THEN FALSE
    ELSE x + w > 0 /\ Less(W, NatOf(x + w))

-----------------------------------------------------------------------------
(* The claims.                                                             *)

\* C1: each of new_render_texture, from_data_and_format, from_rgba8,
\* set_filter, update and update_texture_part that returns normally leaves
\* the texture bound at unit 0, in the cache's record and in the driver,
\* as it was before the call.
C1_BindingRestored ==
    [][(last'.op \in TexOps /\ last'.ok)
          => /\ cache'.textures[0] = cache.textures[0]
             /\ gl'.bound[0] = gl.bound[0]]_vars

\* C2: whenever control is back in the caller, the handle the cache records
\* for unit 0 is the texture the driver has bound at unit 0.
C2_NoDrift == cache.textures[0] = gl.bound[0]

\* C3: from_data_and_format succeeds if and only if bytes.len() equals
\* bytes_per_pixel(format) * width * height in exact integers.
C3_LengthChecked ==
    last.op = "from_data_and_format"
        => (last.ok <=> last.args.len =
                ExactSize(last.args.format, last.args.width, last.args.height))

\* C4: size(format, width, height) returns bytes_per_pixel(format) * width *
\* height for every format and all u32 width and height, without overflow.
C4_SizeExact ==
    last.op = "size"
        => /\ last.ok
           /\ last.args.len =
                ExactSize(last.args.format, last.args.width, last.args.height)

\* C5: update_texture_part with x_offset + width > texture.width, or
\* y_offset + height > texture.height, fails whatever bytes.len() is and
\* issues no sub-region upload.
C5_OutOfBoundsRejected ==
    (/\ last.op = "update_texture_part"
     /\ \/ SumExceeds(last.args.rect[1], last.args.rect[3], last.self.width)
        \/ SumExceeds(last.args.rect[2], last.args.rect[4], last.self.height))
        => /\ ~last.ok
           /\ At(last.trace, {"glTexSubImage2D"}, 0) = {}

\* C6: from_rgba8 succeeds if and only if bytes.len() = width * height * 4,
\* and the Texture it returns has the width and height it was given.
C6_FromRgba8 ==
    last.op = "from_rgba8"
        => /\ last.ok <=> last.args.len =
                ExactSize("RGBA8", last.args.width, last.args.height)
           /\ last.ok => /\ last.tex.width = last.args.width
                         /\ last.tex.height = last.args.height

\* C7: delete() leaves the cache's recorded binding for slot 0 (and every
\* other slot) exactly as it was before the call.
C7_DeleteKeepsCache ==
    [][last'.op = "delete" => cache' = cache]_vars

\* a texture was deleted while slot 0 recorded another texture
C7_Witness ==
    /\ last.op = "delete"
    /\ cache.textures[0] # 0
    /\ cache.textures[0] # last.self.texture

\* C8: store_texture_binding(u) followed immediately by
\* restore_texture_binding(u) leaves the handle bound at unit u unchanged,
\* in the cache's record and in the driver.
C8_StoreRestoreIdentity ==
    [][last'.op = "store_restore"
          => /\ cache'.textures[last'.args.unit] = cache.textures[last'.args.unit]
             /\ gl'.bound[last'.args.unit] = gl.bound[last'.args.unit]]_vars

\* C9: the second of two successive bind_texture(u, h) calls with the same
\* h issues no native bind and leaves the cache and the driver unchanged.
C9_RebindElided ==
    [][(/\ last.op = "bind_texture"
        /\ last'.op = "bind_texture"
        /\ last'.args = last.args)
          => /\ NativeBinds(last'.trace) = {}
             /\ cache' = cache
             /\ gl' = gl]_vars

\* a texture was bound at unit 1 twice in succession, the first call
\* having bound it natively
C9_Witness ==
    /\ last.op = "bind_texture"
    /\ last.again
    /\ last.args.unit = 1
    /\ last.args.handle # 0
    /\ gl.bound[1] = last.args.handle

\* the calls of an execution follow the protocol on unit 0: one store,
\* before the first bind_texture; one restore, after the last native
\* texture mutation and after the store
Protocol(tr) ==
    LET stores   == At(tr, {"store_texture_binding"}, 0)
        restores == At(tr, {"restore_texture_binding"}, 0)
        binds    == At(tr, {"bind_texture"}, 0)
    IN  /\ Cardinality(stores) = 1
        /\ Cardinality(restores) = 1
        /\ binds # {}
        /\ \A s \in stores :
              /\ \A b \in binds : s < b
              /\ \A r \in restores : s < r
        /\ \A r \in restores : \A x \in Mutations(tr) : x < r

\* C10 as stated: every execution of the six operations calls
\* store_texture_binding(0) exactly once, before the first bind_texture(0, .),
\* and restore_texture_binding(0) exactly once, after the last native
\* texture mutation, with no second store before the restore.
C10_ProtocolInEveryExecution ==
    last.op \in TexOps => Protocol(last.trace)

\* C10 as amended: every execution of the six operations that passes its
\* precondition assertions follows the protocol; one that fails them makes
\* no call at all.
C10_ProtocolWhenReturning ==
    last.op \in TexOps
        => IF last.ok THEN Protocol(last.trace) ELSE last.trace = <<>>

\* from_rgba8 has run through its delegation to from_data_and_format
C10_Witness ==
    /\ last.op = "from_rgba8"
    /\ last.ok
    /\ Mutations(last.trace) # {}

\* C11: for every texture a constructor returned and that is not deleted,
\* the width and height in the Texture value are the dimensions of the
\* storage the driver holds under its handle.
C11_DimensionsMatchStorage ==
    \A t \in textures :
        /\ gl.tex[t.texture].alloc
        /\ NatOf(gl.tex[t.texture].w) = t.width
        /\ NatOf(gl.tex[t.texture].h) = t.height

Constructors == {"new_render_texture", "from_data_and_format", "from_rgba8"}

C13_EmptyIsDistinct ==
    /\ last.op = "empty" => last.tex = Texture(0, NatOf(0), NatOf(0))
    /\ (last.op \in Constructors /\ last.ok)
          => /\ last.tex # empty
             /\ last.tex.texture # 0

\* a constructor has returned a texture of width 0 and height 0
C13_Witness ==
    /\ last.op \in Constructors
    /\ last.ok
    /\ last.tex.width = NatOf(0)
    /\ last.tex.height = NatOf(0)

\* C14: every native texture mutation an operation issues is issued while
\* unit 0 is active and the texture the driver has bound there is the
\* operation's own target: the handle a constructor returns, self's handle
\* otherwise.
C14_MutationsHitOwnTarget ==
    last.op \in TexOps
        => \A i \in Mutations(last.trace) :
              /\ last.trace[i].unit = 0
              /\ last.trace[i].h = IF last.op \in Constructors
                                   THEN last.tex.texture
                                   ELSE last.self.texture

\* C15: a call of from_data_and_format, from_rgba8, update or
\* update_texture_part that fails a precondition has made no cache call and
\* no native call: the driver's textures and bindings and the BindingCache,
\* its saved slot included, are as they were before the call.
C15_FailureBeforeAnyCall ==
    [][(/\ last'.op \in {"from_data_and_format", "from_rgba8", "update",
                         "update_texture_part"}
        /\ ~last'.ok)
          => /\ last'.trace = <<>>
             /\ gl' = gl
             /\ cache' = cache]_vars

\* update_texture_part was given a buffer of the right length and failed
\* its bounds assertion
C15_Witness ==
    /\ last.op = "update_texture_part"
    /\ ~last.ok
    /\ last.args.rect = <<3, 0, 2, 1>>
    /\ last.args.len = NatOf(8)
    /\ last.self.width = NatOf(4)

\* C16: every sub-region upload update_texture_part issues lies inside the
\* texture: x_offset, y_offset, width and height are not negative,
\* x_offset + width <= texture.width and y_offset + height <= texture.height.
C16_UploadInsideTexture ==
    last.op = "update_texture_part"
        => \A i \in At(last.trace, {"glTexSubImage2D"}, 0) :
              LET r == last.trace[i].rect
              IN  /\ r[1] >= 0 /\ r[2] >= 0 /\ r[3] >= 0 /\ r[4] >= 0
                  /\ ~SumExceeds(r[1], r[3], last.self.width)
                  /\ ~SumExceeds(r[2], r[4], last.self.height)

\* C17: update(ctx, bytes) has the outcome of update_texture_part(ctx, 0, 0,
\* self.width, self.height, bytes) from the same state: the same success or
\* failure, the same calls, the same cache and driver state; when it
\* succeeds its upload covers the full extent; and it succeeds if and only
\* if bytes.len() = self.width * self.height * 4.
C17_UpdateIsFullExtentPart ==
    [][last'.op = "update"
          => LET self == last'.self
                 len  == last'.args.len
                 r    == update_texture_part(Machine, self, 0, 0,
                            U32AsI32(self.width), U32AsI32(self.height),
                            len, overflow_checks)
             IN  /\ last'.ok = r.ok
                 /\ last'.trace = r.m.trace
                 /\ cache' = r.m.cache
                 /\ gl' = r.m.gl
                 /\ last'.ok <=> len = ExactSize("RGBA8", self.width, self.height)
                 /\ last'.ok
                      => \E i \in At(last'.trace, {"glTexSubImage2D"}, 0) :
                            LET q == last'.trace[i].rect
                            IN  /\ q[1] = 0 /\ q[2] = 0
                                /\ q[3] >= 0 /\ NatOf(q[3]) = self.width
                                /\ q[4] >= 0 /\ NatOf(q[4]) = self.height]_vars

\* the sampler parameters of the texture the driver holds under name h
SamplerOf(g, h) ==
    [min |-> g.tex[h].min, mag |-> g.tex[h].mag,
     wrap_s |-> g.tex[h].wrap_s, wrap_t |-> g.tex[h].wrap_t]

\* C18: whatever wrap and filter its params carry, the texture that
\* new_render_texture or from_data_and_format returns has clamp-to-edge
\* wrap on both axes and linear min and mag filters; the filters of a live
\* texture change only in set_filter on that texture, which sets both to
\* the filter given and changes the sampler state of no other texture.
C18_SamplerState ==
    [][/\ (last'.op \in {"new_render_texture", "from_data_and_format"} /\ last'.ok)
            => SamplerOf(gl', last'.tex.texture) =
                  [min |-> "LINEAR", mag |-> "LINEAR",
                   wrap_s |-> "CLAMP_TO_EDGE", wrap_t |-> "CLAMP_TO_EDGE"]
       /\ \A t \in textures \cap textures' :
             (\/ gl'.tex[t.texture].min # gl.tex[t.texture].min
              \/ gl'.tex[t.texture].mag # gl.tex[t.texture].mag)
                => /\ last'.op = "set_filter"
                   /\ last'.self = t
       /\ last'.op = "set_filter"
            => /\ gl'.tex[last'.self.texture].min = GLFilter(last'.args.filter)
               /\ gl'.tex[last'.self.texture].mag = GLFilter(last'.args.filter)
               /\ \A h \in Handles0 \ {last'.self.texture} :
                     SamplerOf(gl', h) = SamplerOf(gl, h)]_vars

=============================================================================
